---- MODULE Spec2Model ----
(***************************************************************************)
(* Company formation server (src/company_formation_server/app.py).        *)
(*                                                                         *)
(* A POST /form-company request is validated into a CompanyFormation and   *)
(* dispatched on (state_of_formation, company_type) to one of six          *)
(* rendering routines.  A Python str is a TLA+ string; an Optional value   *)
(* is a set with no element (None) or one element; a float par value is    *)
(* an integer number of thousandths of a dollar; a PDF is the sequence of  *)
(* its pages, a page the sequence of the strings drawn on it, in drawing   *)
(* order.                                                                  *)
(***************************************************************************)
EXTENDS Integers, Sequences, FiniteSets, TLC

VARIABLES request, company_data, calls, response, clock, threads

vars == <<request, company_data, calls, response, clock, threads>>

(***************************************************************************)
(* Bounds of the model.                                                    *)
(***************************************************************************)
\* Number of days the clock can advance.
MaxClock == 2
\* Longest company name of the specification that enumerates names.
MaxNameLen == 2
\* Number of requests the threaded server handles at once.
MaxThreads == 2

(***************************************************************************)
(* Python values.                                                          *)
(***************************************************************************)
None == {}

Some(v) == {v}

Get(o) == CHOOSE v \in o : TRUE

\* Python truthiness of an Optional[str]: None and "" are falsy.
TruthyStr(o) == o # None /\ Get(o) # ""

\* Python truthiness of an Optional[int]: None and 0 are falsy.
TruthyInt(o) == o # None /\ Get(o) # 0

CharAt(s, i) == SubSeq(s, i, i)

\* needle in hay
Contains(hay, needle) ==
    \E i \in 1..(Len(hay) - Len(needle) + 1) :
        SubSeq(hay, i, i + Len(needle) - 1) = needle

AsciiLower == "abcdefghijklmnopqrstuvwxyz"

AsciiUpper == "ABCDEFGHIJKLMNOPQRSTUVWXYZ"

AsciiDigits == "0123456789"

\* The characters the regular expression class \s matches.
Whitespace == {" ", "\t", "\n", "\r", "\f"}

\* The upper-case letter of each lower-case letter, and the converse.
UpperOf ==
    [c \in {CharAt(AsciiLower, i) : i \in 1..Len(AsciiLower)} |->
        CharAt(AsciiUpper, CHOOSE i \in 1..Len(AsciiLower) : CharAt(AsciiLower, i) = c)]

LowerOf ==
    [c \in {CharAt(AsciiUpper, i) : i \in 1..Len(AsciiUpper)} |->
        CharAt(AsciiLower, CHOOSE i \in 1..Len(AsciiUpper) : CharAt(AsciiUpper, i) = c)]

CharUpper(c) == IF c \in DOMAIN UpperOf THEN UpperOf[c] ELSE c

CharLower(c) == IF c \in DOMAIN LowerOf THEN LowerOf[c] ELSE c

RECURSIVE StrUpper(_)
\* str.upper()
StrUpper(s) == IF s = "" THEN "" ELSE CharUpper(Head(s)) \o StrUpper(Tail(s))

RECURSIVE StrLower(_)
\* str.lower()
StrLower(s) == IF s = "" THEN "" ELSE CharLower(Head(s)) \o StrLower(Tail(s))

Digit(d) == CharAt(AsciiDigits, d + 1)

RECURSIVE NatStr(_)
NatStr(n) == IF n < 10 THEN Digit(n) ELSE NatStr(n \div 10) \o Digit(n % 10)

\* f"{n}" of an int
IntStr(n) == IF n < 0 THEN "-" \o NatStr(-n) ELSE NatStr(n)

\* f"{x:.2f}" of a float given in thousandths, rounded to the nearest
\* hundredth (the inputs of the model hold no tie).
Format2f(x) ==
    LET a == IF x < 0 THEN -x ELSE x
        cents == (a + 5) \div 10
    IN  (IF x < 0 THEN "-" ELSE "")
            \o NatStr(cents \div 100) \o "." \o Digit((cents % 100) \div 10) \o Digit(cents % 10)

(***************************************************************************)
(* The clock: datetime.now() on day number `clock`.                        *)
(***************************************************************************)
MonthName(m) ==
    <<"January", "February", "March", "April", "May", "June", "July",
      "August", "September", "October", "November", "December">>[m]

\* Day 0 is 30 December 2024; the days that follow run into January 2025.
Date(d) ==
    IF d <= 1 THEN [day |-> 30 + d, month |-> 12, year |-> 2024]
              ELSE [day |-> d - 1, month |-> 1, year |-> 2025]

\* strftime('%d')
StrftimeDay(now) == Digit(now.day \div 10) \o Digit(now.day % 10)

\* strftime('%B, %Y')
StrftimeMonthYear(now) == MonthName(now.month) \o ", " \o IntStr(now.year)

(***************************************************************************)
(* CompanyFormation: the validated request.                                *)
(***************************************************************************)
Return(v) == [ok |-> TRUE, value |-> Some(v), error |-> <<>>]

Raise(e) == [ok |-> FALSE, value |-> None, error |-> <<e>>]

IsLetter(c) == c \in DOMAIN UpperOf \/ c \in DOMAIN LowerOf

IsDigit(c) == c \in {CharAt(AsciiDigits, i) : i \in 1..Len(AsciiDigits)}

\* One character of the class [a-zA-Z0-9\s,\.\'&].
CompanyNameChar(c) ==
    IsLetter(c) \/ IsDigit(c) \/ c \in Whitespace \/ c \in {",", ".", "'", "&"}

\* re.match(r'^[a-zA-Z0-9\s,\.\'&]+$', v)
CompanyNameMatch(v) ==
    Len(v) >= 1 /\ \A i \in 1..Len(v) : CompanyNameChar(CharAt(v, i))

\* The pattern with * in place of +: the empty name matches.
validate_company_name_AcceptsEmpty(v) ==
    IF v # "" /\ ~CompanyNameMatch(v)
    THEN Raise("Company name can only contain alphanumeric characters, spaces, commas, periods, apostrophes, and ampersands")
    ELSE Return(v)

\* validate_company_name that returns the name upper-cased, as validate_state
\* does for the state.
validate_company_name_Upper(v) ==
    IF ~CompanyNameMatch(v)
    THEN Raise("Company name can only contain alphanumeric characters, spaces, commas, periods, apostrophes, and ampersands")
    ELSE Return(StrUpper(v))

validate_company_name(v) ==
    IF ~CompanyNameMatch(v)
    THEN Raise("Company name can only contain alphanumeric characters, spaces, commas, periods, apostrophes, and ampersands")
    ELSE Return(v)

states ==
    {"AL", "AK", "AZ", "AR", "CA", "CO", "CT", "DE", "FL", "GA",
     "HI", "ID", "IL", "IN", "IA", "KS", "KY", "LA", "ME", "MD",
     "MA", "MI", "MN", "MS", "MO", "MT", "NE", "NV", "NH", "NJ",
     "NM", "NY", "NC", "ND", "OH", "OK", "OR", "PA", "RI", "SC",
     "SD", "TN", "TX", "UT", "VT", "VA", "WA", "WV", "WI", "WY",
     "DC", "PR", "GU", "VI", "AS", "MP"}

\* The code is compared as given: only upper-case codes are accepted.
validate_state_ExactCase(v) ==
    IF v \notin states THEN Raise("Invalid US state or territory") ELSE Return(v)

\* A code that is no state or territory is replaced by Delaware's.
validate_state_DelawareWhenInvalid(v) ==
    IF StrUpper(v) \notin states THEN Return("DE") ELSE Return(StrUpper(v))

\* validate_state that checks the upper-cased code and returns the value as
\* it came.
validate_state_KeepsCase(v) ==
    IF StrUpper(v) \notin states
    THEN Raise("Invalid US state or territory")
    ELSE Return(v)

validate_state(v) ==
    IF StrUpper(v) \notin states
    THEN Raise("Invalid US state or territory")
    ELSE Return(StrUpper(v))

\* A required field: a missing (None) value is an error.
Required(o) == IF o = None THEN Raise("field required") ELSE Return(Get(o))

\* A company type compared without regard to case and normalised.
CompanyTypeField_AnyCase(o) ==
    IF ~Required(o).ok THEN Required(o)
    ELSE IF StrLower(Get(o)) = "corporation" THEN Return("corporation")
    ELSE IF StrLower(Get(o)) = "llc" THEN Return("LLC")
    ELSE Raise("unexpected value; permitted: 'corporation', 'LLC'")

\* company_type: Literal["corporation", "LLC"]
CompanyTypeField(o) ==
    IF ~Required(o).ok THEN Required(o)
    ELSE IF Get(o) \notin {"corporation", "LLC"}
         THEN Raise("unexpected value; permitted: 'corporation', 'LLC'")
         ELSE Return(Get(o))

\* As CompanyFormation, and the model fills in the New York defaults of county
\* and shares.
CompanyFormation_FillsDefaults(data) ==
    LET name  == IF Required(data.company_name).ok
                 THEN validate_company_name(Get(data.company_name))
                 ELSE Required(data.company_name)
        state == IF Required(data.state_of_formation).ok
                 THEN validate_state(Get(data.state_of_formation))
                 ELSE Required(data.state_of_formation)
        type  == CompanyTypeField(data.company_type)
        inc   == Required(data.incorporator_name)
        errors == name.error \o state.error \o type.error \o inc.error
    IN  IF errors # <<>>
        THEN [ok |-> FALSE, value |-> None, error |-> errors]
        ELSE Return([company_name         |-> Get(name.value),
                     state_of_formation   |-> Get(state.value),
                     company_type         |-> Get(type.value),
                     incorporator_name    |-> Get(inc.value),
                     incorporator_address |-> data.incorporator_address,
                     county               |-> IF data.county = None THEN Some("NEW YORK COUNTY")
                                             ELSE data.county,
                     shares               |-> IF data.shares = None THEN Some(200) ELSE data.shares,
                     par_value            |-> data.par_value])

\* CompanyFormation(**data): every field is validated and the errors of all
\* fields are collected, in the order of the fields.
CompanyFormation(data) ==
    LET name  == IF Required(data.company_name).ok
                 THEN validate_company_name(Get(data.company_name))
                 ELSE Required(data.company_name)
        state == IF Required(data.state_of_formation).ok
                 THEN validate_state(Get(data.state_of_formation))
                 ELSE Required(data.state_of_formation)
        type  == CompanyTypeField(data.company_type)
        inc   == Required(data.incorporator_name)
        errors == name.error \o state.error \o type.error \o inc.error
    IN  IF errors # <<>>
        THEN [ok |-> FALSE, value |-> None, error |-> errors]
        ELSE Return([company_name         |-> Get(name.value),
                     state_of_formation   |-> Get(state.value),
                     company_type         |-> Get(type.value),
                     incorporator_name    |-> Get(inc.value),
                     incorporator_address |-> data.incorporator_address,
                     county               |-> data.county,
                     shares               |-> data.shares,
                     par_value            |-> data.par_value])

(***************************************************************************)
(* The canvas: drawString and drawCentredString append their text to the   *)
(* page, save() closes the page and the document.                          *)
(***************************************************************************)
\* save() that writes no page.
Save_NoPage(page) == <<>>

Save(page) == <<page>>

\* As generate_delaware_articles, and the FOURTH clause states the request's
\* shares when it has any.
generate_delaware_articles_UsesShares(company_data_, now1, now2) ==
    Save(<<
        "CERTIFICATE OF INCORPORATION",
        "FIRST: The name of this corporation is:",
        company_data_.company_name,
        "SECOND: Its registered office in the State of Delaware is located at:",
        "251 Little Falls Drive, Wilmington, New Castle County, Delaware 19808",
        "THIRD: The purpose of the corporation is to engage in any lawful act or activity for",
        "which corporations may be organized under the General Corporation Law of Delaware.",
        "FOURTH: The total number of shares of stock which this corporation is authorized",
        "to issue is "
            \o (IF company_data_.shares = None THEN "1,000"
                ELSE IntStr(Get(company_data_.shares)))
            \o " shares of Common Stock with $0.01 par value per share.",
        "IN WITNESS WHEREOF, the undersigned, being the incorporator hereinbefore named,",
        "has executed this Certificate of Incorporation this " \o StrftimeDay(now1) \o " day of",
        StrftimeMonthYear(now2) \o ".",
        "Incorporator:",
        company_data_.incorporator_name
    >>)

generate_delaware_articles(company_data_, now1, now2) ==
    Save(<<
        "CERTIFICATE OF INCORPORATION",
        "FIRST: The name of this corporation is:",
        company_data_.company_name,
        "SECOND: Its registered office in the State of Delaware is located at:",
        "251 Little Falls Drive, Wilmington, New Castle County, Delaware 19808",
        "THIRD: The purpose of the corporation is to engage in any lawful act or activity for",
        "which corporations may be organized under the General Corporation Law of Delaware.",
        "FOURTH: The total number of shares of stock which this corporation is authorized",
        "to issue is 1,000 shares of Common Stock with $0.01 par value per share.",
        "IN WITNESS WHEREOF, the undersigned, being the incorporator hereinbefore named,",
        "has executed this Certificate of Incorporation this " \o StrftimeDay(now1) \o " day of",
        StrftimeMonthYear(now2) \o ".",
        "Incorporator:",
        company_data_.incorporator_name
    >>)

generate_delaware_llc_certificate(company_data_, now1, now2) ==
    Save(<<
        "CERTIFICATE OF FORMATION",
        "FIRST: The name of the limited liability company is:",
        company_data_.company_name,
        "SECOND: The address of its registered office in the State of Delaware is:",
        "251 Little Falls Drive, Wilmington, New Castle County, Delaware 19808",
        "THIRD: The name and address of its registered agent in the State of Delaware is:",
        "Corporation Service Company",
        "251 Little Falls Drive",
        "Wilmington, DE 19808",
        "FOURTH: The limited liability company shall be managed by its members.",
        "IN WITNESS WHEREOF, the undersigned has executed this Certificate of Formation this "
            \o StrftimeDay(now1) \o " day of",
        StrftimeMonthYear(now2) \o ".",
        "Authorized Person:",
        company_data_.incorporator_name
    >>)

\* As generate_california_articles, and the second and third clause carry each
\* other's number.
generate_california_articles_Misnumbered(company_data_, now1, now2) ==
    Save(<<
        "ARTICLES OF INCORPORATION",
        "ARTICLE I: The name of this corporation is:",
        company_data_.company_name,
        "ARTICLE III: The purpose of the corporation is to engage in any lawful act or activity",
        "for which a corporation may be organized under the General Corporation Law of California.",
        "ARTICLE II: The name and address in California of the corporation's initial agent for service of process is:",
        "California Registered Agent, Inc.",
        "123 Main Street",
        "Los Angeles, CA 90001",
        "IN WITNESS WHEREOF, the undersigned, being the incorporator hereinbefore named,",
        "has executed these Articles of Incorporation this " \o StrftimeDay(now1) \o " day of",
        StrftimeMonthYear(now2) \o ".",
        "Incorporator:",
        company_data_.incorporator_name
    >>)

generate_california_articles(company_data_, now1, now2) ==
    Save(<<
        "ARTICLES OF INCORPORATION",
        "ARTICLE I: The name of this corporation is:",
        company_data_.company_name,
        "ARTICLE II: The purpose of the corporation is to engage in any lawful act or activity",
        "for which a corporation may be organized under the General Corporation Law of California.",
        "ARTICLE III: The name and address in California of the corporation's initial agent for service of process is:",
        "California Registered Agent, Inc.",
        "123 Main Street",
        "Los Angeles, CA 90001",
        "IN WITNESS WHEREOF, the undersigned, being the incorporator hereinbefore named,",
        "has executed these Articles of Incorporation this " \o StrftimeDay(now1) \o " day of",
        StrftimeMonthYear(now2) \o ".",
        "Incorporator:",
        company_data_.incorporator_name
    >>)

generate_california_llc_certificate(company_data_, now1, now2) ==
    Save(<<
        "ARTICLES OF ORGANIZATION",
        "ARTICLE I: The name of the limited liability company is:",
        company_data_.company_name,
        "ARTICLE II: The purpose of the limited liability company is to engage in any lawful business.",
        "ARTICLE III: The name and address in California of the LLC's initial agent for service of process is:",
        "California Registered Agent, Inc.",
        "123 Main Street",
        "Los Angeles, CA 90001",
        "IN WITNESS WHEREOF, the undersigned has executed these Articles of Organization this "
            \o StrftimeDay(now1) \o " day of",
        StrftimeMonthYear(now2) \o ".",
        "Authorized Person:",
        company_data_.incorporator_name
    >>)

\* The default only for an omitted county: `is not None` in place of
\* truthiness.
CountyOrDefault_IsNotNone(company_data_) ==
    IF company_data_.county # None THEN Get(company_data_.county) ELSE "NEW YORK COUNTY"

\* The county is left out of the document.
CountyOrDefault_Blank(company_data_) == ""

\* The county with no default.
CountyOrDefault_NoDefault(company_data_) ==
    IF company_data_.county # None THEN Get(company_data_.county) ELSE ""

\* county = company_data.county if company_data.county else "NEW YORK COUNTY"
CountyOrDefault(company_data_) ==
    IF TruthyStr(company_data_.county) THEN Get(company_data_.county) ELSE "NEW YORK COUNTY"

\* The default only for omitted shares: `is not None` in place of truthiness.
SharesOrDefault_KeepsZero(company_data_) ==
    IF company_data_.shares # None THEN Get(company_data_.shares) ELSE 200

\* shares = company_data.shares if company_data.shares else 200
SharesOrDefault(company_data_) ==
    IF TruthyInt(company_data_.shares) THEN Get(company_data_.shares) ELSE 200

\* par_value = company_data.par_value if company_data.par_value is not None else 0.0
ParValueOrDefault(company_data_) ==
    IF company_data_.par_value # None THEN Get(company_data_.par_value) ELSE 0

\* The line of the FOURTH clause that states the shares.
SharesLine(shares, par_value) ==
    IF par_value > 0
    THEN IntStr(shares) \o " common shares with $" \o Format2f(par_value) \o " par value per share."
    ELSE IntStr(shares) \o " common shares without par value."

\* The address with no default.
AddressOrDefault_NoDefault(company_data_) ==
    IF company_data_.incorporator_address # None
    THEN Get(company_data_.incorporator_address)
    ELSE ""

\* As AddressOrDefault, and the address is upper-cased as the county is.
AddressOrDefault_Upper(company_data_) ==
    IF TruthyStr(company_data_.incorporator_address)
    THEN StrUpper(Get(company_data_.incorporator_address))
    ELSE "123 Main Street, Albany, NY 12207"

\* incorporator_address = company_data.incorporator_address
\*     if company_data.incorporator_address else "123 Main Street, Albany, NY 12207"
AddressOrDefault(company_data_) ==
    IF TruthyStr(company_data_.incorporator_address)
    THEN Get(company_data_.incorporator_address)
    ELSE "123 Main Street, Albany, NY 12207"

\* As generate_new_york_articles, and the title block lacks the company name.
generate_new_york_articles_NoTitleName(company_data_) ==
    LET county == CountyOrDefault(company_data_)
        shares == SharesOrDefault(company_data_)
        par_value == ParValueOrDefault(company_data_)
        incorporator_address == AddressOrDefault(company_data_)
    IN  Save(<<
        "CERTIFICATE OF INCORPORATION",
        "OF",
        "Under Section 402 of the Business Corporation Law",
        "FIRST:",
        "The name of this corporation is:",
        company_data_.company_name,
        "SECOND:",
        "The purpose of the corporation is to engage in any lawful act or activity for which",
        "a corporation may be organized under the Business Corporation Law. The corporation is not",
        "formed to engage in any act or activity requiring the consent or approval of any state official,",
        "department, board, agency or other body without such consent or approval first being obtained.",
        "THIRD:",
        "The county, within this state, in which the office of the corporation is to be located",
        "is: " \o StrUpper(county) \o ".",
        "FOURTH:",
        "The corporation shall have authority to issue one class of shares consisting of",
        SharesLine(shares, par_value),
        "FIFTH:",
        "The Secretary of State is designated as agent of the corporation upon whom process",
        "against the corporation may be served.",
        "The post office address to which the Secretary of State shall mail a copy of any process",
        "against the corporation served upon the Secretary of State by personal delivery is:",
        incorporator_address,
        "Incorporator:",
        "/s/ " \o company_data_.incorporator_name,
        incorporator_address,
        "Filer's Name and Address:",
        "/s/ " \o company_data_.incorporator_name,
        incorporator_address
    >>)

generate_new_york_articles(company_data_) ==
    LET county == CountyOrDefault(company_data_)
        shares == SharesOrDefault(company_data_)
        par_value == ParValueOrDefault(company_data_)
        incorporator_address == AddressOrDefault(company_data_)
    IN  Save(<<
        "CERTIFICATE OF INCORPORATION",
        "OF",
        company_data_.company_name,
        "Under Section 402 of the Business Corporation Law",
        "FIRST:",
        "The name of this corporation is:",
        company_data_.company_name,
        "SECOND:",
        "The purpose of the corporation is to engage in any lawful act or activity for which",
        "a corporation may be organized under the Business Corporation Law. The corporation is not",
        "formed to engage in any act or activity requiring the consent or approval of any state official,",
        "department, board, agency or other body without such consent or approval first being obtained.",
        "THIRD:",
        "The county, within this state, in which the office of the corporation is to be located",
        "is: " \o StrUpper(county) \o ".",
        "FOURTH:",
        "The corporation shall have authority to issue one class of shares consisting of",
        SharesLine(shares, par_value),
        "FIFTH:",
        "The Secretary of State is designated as agent of the corporation upon whom process",
        "against the corporation may be served.",
        "The post office address to which the Secretary of State shall mail a copy of any process",
        "against the corporation served upon the Secretary of State by personal delivery is:",
        incorporator_address,
        "Incorporator:",
        "/s/ " \o company_data_.incorporator_name,
        incorporator_address,
        "Filer's Name and Address:",
        "/s/ " \o company_data_.incorporator_name,
        incorporator_address
    >>)

\* As generate_new_york_llc_certificate, and the last clause is labelled as
\* in the corporation document.
generate_new_york_llc_certificate_FifthLabel(company_data_) ==
    LET county == CountyOrDefault(company_data_)
        incorporator_address == AddressOrDefault(company_data_)
    IN  Save(<<
        "ARTICLES OF ORGANIZATION",
        "OF",
        company_data_.company_name,
        "Under Section 203 of the Limited Liability Company Law",
        "FIRST:",
        "The name of the limited liability company is:",
        company_data_.company_name,
        "SECOND:",
        "The purpose of the limited liability company is to engage in any lawful act or activity",
        "for which limited liability companies may be organized under the Limited Liability Company Law.",
        "THIRD:",
        "The county, within this state, in which the office of the limited liability company is",
        "to be located is: " \o StrUpper(county) \o ".",
        "FIFTH:",
        "The Secretary of State is designated as agent of the limited liability company upon",
        "whom process against it may be served.",
        "The post office address to which the Secretary of State shall mail a copy of any process",
        "against the limited liability company served upon the Secretary of State is:",
        incorporator_address,
        "Organizer:",
        "/s/ " \o company_data_.incorporator_name,
        incorporator_address,
        "Filer's Name and Address:",
        "/s/ " \o company_data_.incorporator_name,
        incorporator_address
    >>)

\* As generate_new_york_llc_certificate, and the shares are stated as in the
\* corporation document.
generate_new_york_llc_certificate_WithShares(company_data_) ==
    LET county == CountyOrDefault(company_data_)
        incorporator_address == AddressOrDefault(company_data_)
    IN  Save(<<
        "ARTICLES OF ORGANIZATION",
        "OF",
        company_data_.company_name,
        "Under Section 203 of the Limited Liability Company Law",
        "FIRST:",
        "The name of the limited liability company is:",
        company_data_.company_name,
        "SECOND:",
        "The purpose of the limited liability company is to engage in any lawful act or activity",
        "for which limited liability companies may be organized under the Limited Liability Company Law.",
        "THIRD:",
        "The county, within this state, in which the office of the limited liability company is",
        "to be located is: " \o StrUpper(county) \o ".",
        SharesLine(SharesOrDefault(company_data_), ParValueOrDefault(company_data_)),
        "FOURTH:",
        "The Secretary of State is designated as agent of the limited liability company upon",
        "whom process against it may be served.",
        "The post office address to which the Secretary of State shall mail a copy of any process",
        "against the limited liability company served upon the Secretary of State is:",
        incorporator_address,
        "Organizer:",
        "/s/ " \o company_data_.incorporator_name,
        incorporator_address,
        "Filer's Name and Address:",
        "/s/ " \o company_data_.incorporator_name,
        incorporator_address
    >>)

\* As generate_new_york_llc_certificate, and the signer block is labelled as
\* in the corporation document.
generate_new_york_llc_certificate_IncorporatorLabel(company_data_) ==
    LET county == CountyOrDefault(company_data_)
        incorporator_address == AddressOrDefault(company_data_)
    IN  Save(<<
        "ARTICLES OF ORGANIZATION",
        "OF",
        company_data_.company_name,
        "Under Section 203 of the Limited Liability Company Law",
        "FIRST:",
        "The name of the limited liability company is:",
        company_data_.company_name,
        "SECOND:",
        "The purpose of the limited liability company is to engage in any lawful act or activity",
        "for which limited liability companies may be organized under the Limited Liability Company Law.",
        "THIRD:",
        "The county, within this state, in which the office of the limited liability company is",
        "to be located is: " \o StrUpper(county) \o ".",
        "FOURTH:",
        "The Secretary of State is designated as agent of the limited liability company upon",
        "whom process against it may be served.",
        "The post office address to which the Secretary of State shall mail a copy of any process",
        "against the limited liability company served upon the Secretary of State is:",
        incorporator_address,
        "Incorporator:",
        "/s/ " \o company_data_.incorporator_name,
        incorporator_address,
        "Filer's Name and Address:",
        "/s/ " \o company_data_.incorporator_name,
        incorporator_address
    >>)

generate_new_york_llc_certificate(company_data_) ==
    LET county == CountyOrDefault(company_data_)
        incorporator_address == AddressOrDefault(company_data_)
    IN  Save(<<
        "ARTICLES OF ORGANIZATION",
        "OF",
        company_data_.company_name,
        "Under Section 203 of the Limited Liability Company Law",
        "FIRST:",
        "The name of the limited liability company is:",
        company_data_.company_name,
        "SECOND:",
        "The purpose of the limited liability company is to engage in any lawful act or activity",
        "for which limited liability companies may be organized under the Limited Liability Company Law.",
        "THIRD:",
        "The county, within this state, in which the office of the limited liability company is",
        "to be located is: " \o StrUpper(county) \o ".",
        "FOURTH:",
        "The Secretary of State is designated as agent of the limited liability company upon",
        "whom process against it may be served.",
        "The post office address to which the Secretary of State shall mail a copy of any process",
        "against the limited liability company served upon the Secretary of State is:",
        incorporator_address,
        "Organizer:",
        "/s/ " \o company_data_.incorporator_name,
        incorporator_address,
        "Filer's Name and Address:",
        "/s/ " \o company_data_.incorporator_name,
        incorporator_address
    >>)

(***************************************************************************)
(* POST /form-company.                                                     *)
(*                                                                         *)
(* A request is [kind, fields]: kind is "json" (a JSON object), "form" (a  *)
(* form-encoded body), "json_array" (a JSON body that is not an object) or *)
(* "json_malformed" (a JSON content type whose body does not parse);       *)
(* fields holds the eight fields the body carries, each an Optional.       *)
(***************************************************************************)
FieldNames ==
    {"company_name", "state_of_formation", "company_type", "incorporator_name",
     "incorporator_address", "county", "shares", "par_value"}

\* request.is_json
is_json(req) == req.kind # "form"

\* The try block's first statement: data = request.get_json(), or the dict
\* built from the four request.form.get(...) calls.
ReadBody(req) ==
    IF is_json(req)
    THEN CASE req.kind = "json_malformed" ->
                  Raise("400 Bad Request: Failed to decode JSON object")
           [] req.kind = "json_array" -> Return([is_mapping |-> FALSE])
           [] OTHER -> Return([is_mapping |-> TRUE] @@ req.fields)
    ELSE Return([is_mapping           |-> TRUE,
                 company_name         |-> req.fields.company_name,
                 state_of_formation   |-> req.fields.state_of_formation,
                 company_type         |-> req.fields.company_type,
                 incorporator_name    |-> req.fields.incorporator_name,
                 incorporator_address |-> None,
                 county               |-> None,
                 shares               |-> None,
                 par_value            |-> None])

\* str(e) of the errors collected by the validation.
RECURSIVE JoinLines(_)
JoinLines(lines) ==
    IF lines = <<>> THEN ""
    ELSE IF Len(lines) = 1 THEN lines[1]
    ELSE lines[1] \o "\n" \o JoinLines(Tail(lines))

\* company_data = CompanyFormation(**data)
Construct(data) ==
    IF ~data.is_mapping
    THEN Raise("argument after ** must be a mapping")
    ELSE CompanyFormation(data)

Rendered(routine, pdf) == [routine |-> Some(routine), pdf |-> pdf, error |-> ""]

Unsupported(message) == [routine |-> None, pdf |-> <<>>, error |-> message]

\* Dispatch with the company type ignored: every supported state gets its
\* corporation routine.
Dispatch_IgnoresType(company_data_, now1, now2) ==
    IF company_data_.state_of_formation = "DE"
    THEN Rendered("generate_delaware_articles",
                  generate_delaware_articles(company_data_, now1, now2))
    ELSE IF company_data_.state_of_formation = "CA"
    THEN Rendered("generate_california_articles",
                  generate_california_articles(company_data_, now1, now2))
    ELSE IF company_data_.state_of_formation = "NY"
    THEN Rendered("generate_new_york_articles", generate_new_york_articles(company_data_))
    ELSE Unsupported("Only Delaware, California, and New York entities are supported at this time")

\* Dispatch with the Delaware routines as the fallback of the chain.
Dispatch_DelawareFallback(company_data_, now1, now2) ==
    IF company_data_.state_of_formation = "CA"
    THEN IF company_data_.company_type = "corporation"
         THEN Rendered("generate_california_articles",
                       generate_california_articles(company_data_, now1, now2))
         ELSE Rendered("generate_california_llc_certificate",
                       generate_california_llc_certificate(company_data_, now1, now2))
    ELSE IF company_data_.state_of_formation = "NY"
    THEN IF company_data_.company_type = "corporation"
         THEN Rendered("generate_new_york_articles",
                       generate_new_york_articles(company_data_))
         ELSE Rendered("generate_new_york_llc_certificate",
                       generate_new_york_llc_certificate(company_data_))
    ELSE IF company_data_.company_type = "corporation"
         THEN Rendered("generate_delaware_articles",
                       generate_delaware_articles(company_data_, now1, now2))
         ELSE Rendered("generate_delaware_llc_certificate",
                       generate_delaware_llc_certificate(company_data_, now1, now2))

\* The if/elif chain on state_of_formation and company_type.
Dispatch(company_data_, now1, now2) ==
    IF company_data_.state_of_formation = "DE"
    THEN IF company_data_.company_type = "corporation"
         THEN Rendered("generate_delaware_articles",
                       generate_delaware_articles(company_data_, now1, now2))
         ELSE IF company_data_.company_type = "LLC"
         THEN Rendered("generate_delaware_llc_certificate",
                       generate_delaware_llc_certificate(company_data_, now1, now2))
         ELSE Unsupported("Unsupported company type")
    ELSE IF company_data_.state_of_formation = "CA"
    THEN IF company_data_.company_type = "corporation"
         THEN Rendered("generate_california_articles",
                       generate_california_articles(company_data_, now1, now2))
         ELSE IF company_data_.company_type = "LLC"
         THEN Rendered("generate_california_llc_certificate",
                       generate_california_llc_certificate(company_data_, now1, now2))
         ELSE Unsupported("Unsupported company type")
    ELSE IF company_data_.state_of_formation = "NY"
    THEN IF company_data_.company_type = "corporation"
         THEN Rendered("generate_new_york_articles",
                       generate_new_york_articles(company_data_))
         ELSE IF company_data_.company_type = "LLC"
         THEN Rendered("generate_new_york_llc_certificate",
                       generate_new_york_llc_certificate(company_data_))
         ELSE Unsupported("Unsupported company type")
    ELSE Unsupported("Only Delaware, California, and New York entities are supported at this time")

\* The error returned as a server error.
ErrorResponse_500(message) ==
    [status |-> 500, mimetype |-> "application/json", json |-> Some([error |-> message]),
     pdf |-> <<>>, download_name |-> None]

\* jsonify({"error": message}), 400
ErrorResponse(message) ==
    [status |-> 400, mimetype |-> "application/json", json |-> Some([error |-> message]),
     pdf |-> <<>>, download_name |-> None]

\* send_file(pdf_buffer, mimetype='application/pdf', as_attachment=True, download_name=...)
send_file(pdf, company_name) ==
    [status |-> 200, mimetype |-> "application/pdf", json |-> None,
     pdf |-> pdf, download_name |-> Some(company_name \o "_certificate.pdf")]

\* The handler: what it leaves in company_data, the calls it makes in order,
\* and its response.  now1 and now2 are the values of the routine's first
\* and second datetime.now(); with `raises` the rendering routine called
\* raises an exception, which the handler's except clause catches.
form_company(req, now1, now2, raises) ==
    LET read == IF is_json(req) THEN <<"get_json">> ELSE <<"form.get">>
        body == ReadBody(req)
    IN  IF ~body.ok
        THEN [company_data |-> None, calls |-> read \o <<"jsonify">>,
              response |-> ErrorResponse(JoinLines(body.error))]
        ELSE
        LET made == Construct(Get(body.value))
        IN  IF ~made.ok
            THEN [company_data |-> None,
                  calls |-> read \o <<"CompanyFormation", "jsonify">>,
                  response |-> ErrorResponse(JoinLines(made.error))]
            ELSE
            LET out == Dispatch(Get(made.value), now1, now2)
            IN  IF out.routine = None
                THEN [company_data |-> made.value,
                      calls |-> read \o <<"CompanyFormation", "jsonify">>,
                      response |-> ErrorResponse(out.error)]
                ELSE IF raises
                THEN [company_data |-> made.value,
                      calls |-> read \o <<"CompanyFormation", Get(out.routine), "jsonify">>,
                      response |-> ErrorResponse("exception raised by " \o Get(out.routine))]
                ELSE [company_data |-> made.value,
                      calls |-> read \o <<"CompanyFormation", Get(out.routine), "send_file">>,
                      response |-> send_file(out.pdf, Get(made.value).company_name)]

\* The routines that call datetime.now().
ReadsClock ==
    {"generate_delaware_articles", "generate_delaware_llc_certificate",
     "generate_california_articles", "generate_california_llc_certificate"}

(***************************************************************************)
(* The requests of the model.                                              *)
(***************************************************************************)
Req(kind, name, state, type, inc, addr, county, shares, par) ==
    [kind |-> kind,
     fields |-> [company_name         |-> name,
                 state_of_formation   |-> state,
                 company_type         |-> type,
                 incorporator_name    |-> inc,
                 incorporator_address |-> addr,
                 county               |-> county,
                 shares               |-> shares,
                 par_value            |-> par]]

Opt(S) == {None} \cup {Some(v) : v \in S}

\* Requests that vary the four required fields.
RequiredRequests ==
    {Req(k, n, s, t, i, None, None, None, None) :
        k \in {"json", "form"},
        n \in Opt({"", " Acme & Co. ", "Acme-1"}),
        s \in Opt({"DE", "ca", "NY", "TX", "ZZ"}),
        t \in Opt({"corporation", "LLC", "llc"}),
        i \in Opt({"", " Jo Doe"})}

\* Valid requests that vary the optional fields.
OptionalRequests ==
    {Req(k, Some("Acme & Co."), Some(s), Some(t), Some("Jo Doe"), a, c, sh, p) :
        k \in {"json", "form"},
        s \in {"NY", "ny", "DE", "CA"},
        t \in {"corporation", "LLC"},
        a \in Opt({"", "1 Elm St"}),
        c \in Opt({"", "Kings"}),
        sh \in Opt({0, 1000, -5}),
        p \in Opt({0, 4, 10, -10})}

\* JSON bodies that are no object.
BodyRequests ==
    {Req(k, None, None, None, None, None, None, None, None) :
        k \in {"json_array", "json_malformed"}}

Requests == RequiredRequests \cup OptionalRequests \cup BodyRequests

(***************************************************************************)
(* The state machine.                                                      *)
(***************************************************************************)
\* The threads of the threaded server, one per request handled at once.
Threads == 1..MaxThreads

\* A thread that handles no request: form_company has no call frame, so none
\* of its locals exists.  pc is the statement the thread is at; nows holds the
\* days its routine read from the clock.
IdleThread ==
    [pc |-> "idle", request |-> None, data |-> None, company_data |-> None,
     pdf |-> <<>>, response |-> None, nows |-> <<>>]

Init ==
    /\ request = None
    /\ company_data = None
    /\ calls = <<>>
    /\ response = None
    /\ clock = 0
    /\ threads = [t \in Threads |-> IdleThread]

\* The six rendering routines.
Routines ==
    ReadsClock \cup {"generate_new_york_articles", "generate_new_york_llc_certificate"}

\* The handler runs on one request; midnight passes between the routine's two
\* readings of the clock when adv = 1.
FormCompany(req, adv, raises) ==
    /\ clock + adv <= MaxClock
    /\ LET r == form_company(req, Date(clock), Date(clock + adv), raises)
           called == {r.calls[i] : i \in 1..Len(r.calls)}
       IN  /\ adv = 1 => called \cap ReadsClock # {}
           /\ raises => called \cap Routines # {}
           /\ request' = Some(req)
           /\ company_data' = r.company_data
           /\ calls' = r.calls
           /\ response' = Some(r.response)
    /\ clock' = clock + adv
    /\ UNCHANGED threads

\* The response is sent and the request's objects are dropped.
Finish ==
    /\ request # None
    /\ request' = None
    /\ company_data' = None
    /\ calls' = <<>>
    /\ response' = None
    /\ UNCHANGED <<clock, threads>>

\* A day passes.
Tick ==
    /\ clock < MaxClock
    /\ clock' = clock + 1
    /\ UNCHANGED <<request, company_data, calls, response, threads>>

\* The server is idle and a client posts a request.
Post ==
    /\ request = None
    /\ \E req \in Requests, adv \in 0..1 : FormCompany(req, adv, FALSE)

Next == Post \/ Finish \/ Tick

Spec == Init /\ [][Next]_vars

\* As Post, and the rendering routine may raise.
PostRaising ==
    /\ request = None
    /\ \E req \in Requests, adv \in 0..1, raises \in BOOLEAN : FormCompany(req, adv, raises)

NextRaising == PostRaising \/ Finish \/ Tick

SpecRaising == Init /\ [][NextRaising]_vars

(***************************************************************************)
(* The validator of company_name, on every name of up to MaxNameLen        *)
(* characters of NameAlphabet.                                             *)
(***************************************************************************)
NameAlphabet == {"a", "Z", "7", " ", ",", ".", "'", "&", "\t", "\n", "-", "_"}

RECURSIVE NamesOfLen(_)
NamesOfLen(n) ==
    IF n = 0 THEN {""} ELSE {s \o c : s \in NamesOfLen(n - 1), c \in NameAlphabet}

NameRequests ==
    {Req("json", Some(n), Some("NY"), Some("LLC"), Some("Jo Doe"), None, None, None, None) :
        n \in UNION {NamesOfLen(k) : k \in 0..MaxNameLen}}

PostName ==
    /\ request = None
    /\ \E req \in NameRequests : FormCompany(req, 0, FALSE)

NextNames == PostName \/ Finish

SpecNames == Init /\ [][NextNames]_vars

(***************************************************************************)
(* The validator of state_of_formation, on every enumerated code in upper, *)
(* lower and mixed case, and on values that are no code.                   *)
(***************************************************************************)
StateValues ==
    UNION {{c, StrLower(c), Head(c) \o StrLower(Tail(c)), StrLower(Head(c)) \o Tail(c)} :
              c \in states}
        \cup {"", "N", "XX", "ZZ", "NYC", " NY", "NY ", "D1"}

StateRequests ==
    {Req("json", Some("Acme & Co."), Some(s), Some(t), Some("Jo Doe"), None, None, None, None) :
        s \in StateValues, t \in {"corporation", "LLC"}}

PostState ==
    /\ request = None
    /\ \E req \in StateRequests : FormCompany(req, 0, FALSE)

NextStates == PostState \/ Finish

SpecStates == Init /\ [][NextStates]_vars

\* New York requests whose free-text fields hold wording of the documents:
\* a company named after the share clause, an address that reads as a clause
\* label.
NewYorkRequests ==
    {Req("json", Some(n), Some("NY"), Some(t), Some("Jo Doe"), a, c, sh, p) :
        n \in {"Acme & Co.", "No par value"},
        t \in {"corporation", "LLC"},
        a \in Opt({"", "1 Elm St", "FIRST:", "FIFTH:"}),
        c \in Opt({"", "Kings"}),
        sh \in Opt({0, 1000}),
        p \in Opt({0, 10})}

PostNewYork ==
    /\ request = None
    /\ \E req \in NewYorkRequests : FormCompany(req, 0, FALSE)

NextNewYork == PostNewYork \/ Finish

SpecNewYork == Init /\ [][NextNewYork]_vars

(***************************************************************************)
(* The threaded server: each request is handled by a thread of its own,    *)
(* which runs form_company statement by statement on the locals of its     *)
(* call frame (data, company_data, pdf_buffer); the threads share the      *)
(* clock and nothing else.                                                 *)
(***************************************************************************)
\* The requests handled concurrently.
ConcurrentRequests ==
    {Req("json", Some("Acme & Co."), Some("NY"), Some("corporation"), Some("Jo Doe"),
         Some("1 Elm St"), Some("Kings"), Some(1000), Some(10)),
     Req("form", Some("Bolt, Inc."), Some("DE"), Some("LLC"), Some("Ann Lee"),
         None, None, None, None),
     Req("json", Some("Acme & Co."), Some("TX"), Some("corporation"), Some("Jo Doe"),
         None, None, None, None),
     Req("json", Some("Acme-1"), Some("NY"), Some("LLC"), Some("Ann Lee"),
         None, Some("Erie"), None, None),
     Req("json_malformed", None, None, None, None, None, None, None, None)}

\* company_data as a module-level global: a thread reads what another thread
\* has assigned, if any has.
company_data_of_Global(ths, t) ==
    IF \E u \in DOMAIN ths : u # t /\ ths[u].company_data # None
    THEN ths[CHOOSE u \in DOMAIN ths : u # t /\ ths[u].company_data # None].company_data
    ELSE ths[t].company_data

\* company_data is a local of form_company: a thread reads what it assigned.
company_data_of(ths, t) == ths[t].company_data

\* Flask calls form_company in a thread that handles no request.
Accept(t, req) ==
    /\ threads[t].pc = "idle"
    /\ threads' = [threads EXCEPT ![t] = [IdleThread EXCEPT !.pc = "get_data",
                                                           !.request = Some(req)]]
    /\ UNCHANGED <<request, company_data, calls, response, clock>>

\* data = request.get_json() if request.is_json else {...request.form.get...}
GetData(t) ==
    /\ threads[t].pc = "get_data"
    /\ LET body == ReadBody(Get(threads[t].request))
       IN  threads' =
               IF body.ok
               THEN [threads EXCEPT ![t].data = body.value, ![t].pc = "construct"]
               ELSE [threads EXCEPT
                        ![t].response = Some(ErrorResponse(JoinLines(body.error))),
                        ![t].pc = "done"]
    /\ UNCHANGED <<request, company_data, calls, response, clock>>

\* company_data = CompanyFormation(**data)
ConstructData(t) ==
    /\ threads[t].pc = "construct"
    /\ LET made == Construct(Get(threads[t].data))
       IN  threads' =
               IF made.ok
               THEN [threads EXCEPT ![t].company_data = made.value, ![t].pc = "dispatch"]
               ELSE [threads EXCEPT
                        ![t].response = Some(ErrorResponse(JoinLines(made.error))),
                        ![t].pc = "done"]
    /\ UNCHANGED <<request, company_data, calls, response, clock>>

\* The if/elif chain and the routine it calls; midnight passes between the
\* routine's two readings of the clock when adv = 1.
DispatchData(t, adv) ==
    /\ threads[t].pc = "dispatch"
    /\ clock + adv <= MaxClock
    /\ LET out == Dispatch(Get(company_data_of(threads, t)), Date(clock), Date(clock + adv))
           reads == out.routine # None /\ Get(out.routine) \in ReadsClock
       IN  /\ adv = 1 => reads
           /\ threads' =
                  IF out.routine = None
                  THEN [threads EXCEPT ![t].response = Some(ErrorResponse(out.error)),
                                       ![t].pc = "done"]
                  ELSE [threads EXCEPT
                           ![t].pdf = out.pdf,
                           ![t].nows = IF reads THEN <<clock, clock + adv>> ELSE <<>>,
                           ![t].pc = "send_file"]
    /\ clock' = clock + adv
    /\ UNCHANGED <<request, company_data, calls, response>>

\* return send_file(pdf_buffer, ..., download_name=f"{company_data.company_name}_certificate.pdf")
SendFile(t) ==
    /\ threads[t].pc = "send_file"
    /\ threads' = [threads EXCEPT
                      ![t].response =
                          Some(send_file(threads[t].pdf,
                                         Get(company_data_of(threads, t)).company_name)),
                      ![t].pc = "done"]
    /\ UNCHANGED <<request, company_data, calls, response, clock>>

\* The response is written to the client and the call frame is dropped.
Deliver(t) ==
    /\ threads[t].pc = "done"
    /\ threads' = [threads EXCEPT ![t] = IdleThread]
    /\ UNCHANGED <<request, company_data, calls, response, clock>>

AcceptAny == \E t \in Threads, req \in ConcurrentRequests : Accept(t, req)

GetDataAny == \E t \in Threads : GetData(t)

ConstructAny == \E t \in Threads : ConstructData(t)

DispatchAny == \E t \in Threads, adv \in 0..1 : DispatchData(t, adv)

SendFileAny == \E t \in Threads : SendFile(t)

DeliverAny == \E t \in Threads : Deliver(t)

NextThreaded ==
    AcceptAny \/ GetDataAny \/ ConstructAny \/ DispatchAny \/ SendFileAny
        \/ DeliverAny \/ Tick

SpecThreaded == Init /\ [][NextThreaded]_vars

(***************************************************************************)
(* GET /form-company-schema.                                               *)
(*                                                                         *)
(* An example payload is a dict, modelled as the fields of a request: a    *)
(* key the dict does not hold is None.                                     *)
(***************************************************************************)
\* The list of examples without the two New York entries.
examples_NoNewYork ==
    <<Req("json", Some("Acme Corp, Inc."), Some("DE"), Some("corporation"),
          Some("John Smith"), None, None, None, None).fields,
      Req("json", Some("Smith & Sons, LLC"), Some("DE"), Some("LLC"),
          Some("Jane Doe"), None, None, None, None).fields,
      Req("json", Some("Tech Innovators Co."), Some("CA"), Some("corporation"),
          Some("Michael Johnson"), None, None, None, None).fields,
      Req("json", Some("California Dreaming, LLC"), Some("CA"), Some("LLC"),
          Some("Emily Chen"), None, None, None, None).fields>>

\* The list of examples with the company type of the last one in lower case.
examples_LowerCaseType ==
    <<Req("json", Some("Acme Corp, Inc."), Some("DE"), Some("corporation"),
          Some("John Smith"), None, None, None, None).fields,
      Req("json", Some("Smith & Sons, LLC"), Some("DE"), Some("LLC"),
          Some("Jane Doe"), None, None, None, None).fields,
      Req("json", Some("Tech Innovators Co."), Some("CA"), Some("corporation"),
          Some("Michael Johnson"), None, None, None, None).fields,
      Req("json", Some("California Dreaming, LLC"), Some("CA"), Some("LLC"),
          Some("Emily Chen"), None, None, None, None).fields,
      Req("json", Some("Empire State Corp."), Some("NY"), Some("corporation"),
          Some("Sarah Williams"),
          Some("418 Broadway Ste Y, Albany, Albany County, NY 12207"),
          Some("Albany County"), Some(1000), Some(10)).fields,
      Req("json", Some("Big Apple Ventures, LLC"), Some("NY"), Some("llc"),
          Some("David Chen"), Some("123 Main Street, New York, NY 10001"),
          Some("New York County"), None, None).fields>>

\* examples = [...]; par_value 0.01 is 10 thousandths of a dollar.
examples ==
    <<Req("json", Some("Acme Corp, Inc."), Some("DE"), Some("corporation"),
          Some("John Smith"), None, None, None, None).fields,
      Req("json", Some("Smith & Sons, LLC"), Some("DE"), Some("LLC"),
          Some("Jane Doe"), None, None, None, None).fields,
      Req("json", Some("Tech Innovators Co."), Some("CA"), Some("corporation"),
          Some("Michael Johnson"), None, None, None, None).fields,
      Req("json", Some("California Dreaming, LLC"), Some("CA"), Some("LLC"),
          Some("Emily Chen"), None, None, None, None).fields,
      Req("json", Some("Empire State Corp."), Some("NY"), Some("corporation"),
          Some("Sarah Williams"),
          Some("418 Broadway Ste Y, Albany, Albany County, NY 12207"),
          Some("Albany County"), Some(1000), Some(10)).fields,
      Req("json", Some("Big Apple Ventures, LLC"), Some("NY"), Some("LLC"),
          Some("David Chen"), Some("123 Main Street, New York, NY 10001"),
          Some("New York County"), None, None).fields>>

\* return jsonify(examples)
form_company_schema ==
    [status |-> 200, mimetype |-> "application/json", json |-> Some(examples),
     pdf |-> <<>>, download_name |-> None]

\* The request of a client that asks for the examples.
SchemaRequest == [kind |-> "get", path |-> "/form-company-schema"]

\* The server is idle and a client gets /form-company-schema.
GetSchema ==
    /\ request = None
    /\ request' = Some(SchemaRequest)
    /\ company_data' = None
    /\ calls' = <<"jsonify">>
    /\ response' = Some(form_company_schema)
    /\ UNCHANGED <<clock, threads>>

\* The server is idle and a client posts one of the examples, as JSON or
\* form-encoded.
PostExample ==
    /\ request = None
    /\ \E i \in 1..Len(examples), k \in {"json", "form"}, adv \in 0..1 :
           FormCompany([kind |-> k, fields |-> examples[i]], adv, FALSE)

\* The server with both endpoints: clients get the examples, post them, and
\* post the requests of Post.
NextSchema == GetSchema \/ PostExample \/ Post \/ Finish \/ Tick

SpecSchema == Init /\ [][NextSchema]_vars

(***************************************************************************)
(* Properties.                                                             *)
(***************************************************************************)
\* A request has been handled and its response is not yet dropped.
Handled == request # None /\ response # None

TheRequest == Get(request)

TheResponse == Get(response)

TheData == Get(company_data)

\* The strings drawn on the pages of the returned document, in order.
RECURSIVE Flatten(_)
Flatten(pages) == IF pages = <<>> THEN <<>> ELSE Head(pages) \o Flatten(Tail(pages))

DocLines == Flatten(TheResponse.pdf)

DocContains(text) == \E i \in 1..Len(DocLines) : Contains(DocLines[i], text)

\* The rendering routines the handler called, in order.
RenderCalls == SelectSeq(calls, LAMBDA c : c \in Routines)

IsPdfResponse ==
    /\ TheResponse.status = 200
    /\ TheResponse.mimetype = "application/pdf"
    /\ TheResponse.json = None
    /\ TheResponse.pdf # <<>>

IsErrorResponse ==
    /\ TheResponse.status = 400
    /\ TheResponse.mimetype = "application/json"
    /\ TheResponse.json # None
    /\ DOMAIN Get(TheResponse.json) = {"error"}
    /\ TheResponse.pdf = <<>>
    /\ TheResponse.download_name = None

\* The request passed validation.
Validated == company_data # None

\* The six templates: the routine, the title it draws first and a wording
\* of its own law.
Template ==
    [DE |-> [corporation |-> [routine |-> "generate_delaware_articles",
                              title |-> "CERTIFICATE OF INCORPORATION",
                              law |-> "General Corporation Law of Delaware"],
             LLC |-> [routine |-> "generate_delaware_llc_certificate",
                      title |-> "CERTIFICATE OF FORMATION",
                      law |-> "registered office in the State of Delaware"]],
     CA |-> [corporation |-> [routine |-> "generate_california_articles",
                              title |-> "ARTICLES OF INCORPORATION",
                              law |-> "General Corporation Law of California"],
             LLC |-> [routine |-> "generate_california_llc_certificate",
                      title |-> "ARTICLES OF ORGANIZATION",
                      law |-> "address in California of the LLC"]],
     NY |-> [corporation |-> [routine |-> "generate_new_york_articles",
                              title |-> "CERTIFICATE OF INCORPORATION",
                              law |-> "Under Section 402 of the Business Corporation Law"],
             LLC |-> [routine |-> "generate_new_york_llc_certificate",
                      title |-> "ARTICLES OF ORGANIZATION",
                      law |-> "Under Section 203 of the Limited Liability Company Law"]]]

IsTemplate(t) == DocLines[1] = t.title /\ DocContains(t.law)

\* C1: a validated request whose state is DE, CA or NY runs exactly one
\* rendering routine, the one of its (state, company_type) pair, and the
\* document it gets is of that pair's template and of no other pair's.
C1_RoutineFixedByStateAndType ==
    (Handled /\ Validated /\ TheData.state_of_formation \in {"DE", "CA", "NY"}) =>
        LET mine == Template[TheData.state_of_formation][TheData.company_type]
        IN  /\ RenderCalls = <<mine.routine>>
            /\ IsPdfResponse
            /\ IsTemplate(mine)
            /\ \A st \in {"DE", "CA", "NY"}, ty \in {"corporation", "LLC"} :
                   IsTemplate(Template[st][ty]) => Template[st][ty] = mine

C1_Witness ==
    /\ Handled /\ Validated
    /\ TheData.state_of_formation = "NY" /\ TheData.company_type = "LLC"
    /\ RenderCalls = <<"generate_new_york_llc_certificate">>
    /\ DocContains("Section 203")

\* The request names one of the six supported pairs.
NamesSupportedPair ==
    /\ TheRequest.kind \in {"json", "form"}
    /\ TheRequest.fields.state_of_formation # None
    /\ StrUpper(Get(TheRequest.fields.state_of_formation)) \in {"DE", "CA", "NY"}
    /\ TheRequest.fields.company_type \in {Some("corporation"), Some("LLC")}

\* C2: a request whose (state, company_type) is not one of the six supported
\* pairs gets the JSON error with status 400; no rendering routine is called
\* and no PDF is returned.
C2_UnsupportedPairIsError ==
    (Handled /\ ~NamesSupportedPair) =>
        /\ IsErrorResponse
        /\ RenderCalls = <<>>
        /\ \A i \in 1..Len(calls) : calls[i] # "send_file"

C2_Witness ==
    /\ Handled /\ Validated
    /\ TheData.state_of_formation = "TX" /\ TheData.company_type = "LLC"
    /\ TheResponse.status = 400
    /\ Get(TheResponse.json).error =
           "Only Delaware, California, and New York entities are supported at this time"

\* C3: every request ends in exactly one response, a PDF with status 200 or
\* the JSON object {"error": message} with status 400; a failed validation,
\* an exception while reading the body and an exception while rendering all
\* end in the error, which carries no part of a PDF; no routine runs twice.
C3_OneResponsePdfOrError ==
    Handled =>
        /\ Cardinality(response) = 1
        /\ IsPdfResponse # IsErrorResponse
        /\ Len(SelectSeq(calls, LAMBDA c : c \in {"send_file", "jsonify"})) = 1
        /\ calls[Len(calls)] = (IF IsPdfResponse THEN "send_file" ELSE "jsonify")
        /\ ~Validated => IsErrorResponse
        /\ TheRequest.kind \in {"json_array", "json_malformed"} => IsErrorResponse
        /\ (RenderCalls # <<>> /\ calls[Len(calls)] # "send_file") => IsErrorResponse
        /\ IsErrorResponse => TheResponse.pdf = <<>>
        /\ Len(RenderCalls) <= 1

C3_Witness ==
    /\ Handled
    /\ RenderCalls = <<"generate_new_york_articles">>
    /\ calls[Len(calls)] = "jsonify"
    /\ IsErrorResponse

\* The string holds a character that is not whitespace: str.strip() of it is
\* not empty.
HasInk(text) == \E i \in 1..Len(text) : CharAt(text, i) \notin Whitespace

\* C4: a validated request of a supported pair gets status 200 and mimetype
\* application/pdf, and its document has at least one page, no page whose
\* text is empty, and text that is not empty.
C4_ValidRequestGetsPdfWithText ==
    (Handled /\ Validated /\ TheData.state_of_formation \in {"DE", "CA", "NY"}) =>
        /\ TheResponse.status = 200
        /\ TheResponse.mimetype = "application/pdf"
        /\ Len(TheResponse.pdf) >= 1
        /\ \A p \in 1..Len(TheResponse.pdf) :
               \E i \in 1..Len(TheResponse.pdf[p]) : HasInk(TheResponse.pdf[p][i])
        /\ HasInk(JoinLines(DocLines))

C4_Witness ==
    /\ Handled /\ Validated
    /\ TheData.state_of_formation = "CA"
    /\ TheData.incorporator_name = ""
    /\ TheResponse.status = 200
    /\ Len(TheResponse.pdf) = 1

\* The characters the validator's message names: alphanumeric characters,
\* spaces, commas, periods, apostrophes and ampersands.
ListedChar(c) == IsLetter(c) \/ IsDigit(c) \/ c \in {" ", ",", ".", "'", "&"}

\* C5: the validator rejects every company name that holds a character other
\* than a letter, a digit, a space, a comma, a period, an apostrophe or an
\* ampersand, and accepts every non-empty name made of those characters only.
C5_OnlyListedCharacters ==
    (Handled /\ TheRequest.fields.company_name # None) =>
        LET name == Get(TheRequest.fields.company_name)
        IN  Validated <=>
                (name # "" /\ \A i \in 1..Len(name) : ListedChar(CharAt(name, i)))

\* C6: a state_of_formation is accepted exactly when its upper-cased form is
\* one of the 56 enumerated codes, any other value is rejected with the
\* validation error, and the validated request holds the upper-cased code.
C6_StateAcceptedIffEnumerated ==
    /\ Cardinality(states) = 56
    /\ (Handled /\ TheRequest.fields.state_of_formation # None) =>
        LET given == Get(TheRequest.fields.state_of_formation)
        IN  /\ Validated <=> StrUpper(given) \in states
            /\ Validated => /\ TheData.state_of_formation = StrUpper(given)
                            /\ TheData.state_of_formation \in states
            /\ ~Validated => /\ IsErrorResponse
                             /\ Get(TheResponse.json).error = "Invalid US state or territory"

C6_Witness ==
    /\ Handled /\ Validated
    /\ TheRequest.fields.state_of_formation = Some("wy")
    /\ TheData.state_of_formation = "WY"

\* C7: a request is accepted only if company_type is exactly "corporation" or
\* exactly "LLC"; any other value, a different capitalisation and a missing
\* value fail the validation and get the 400 error.
C7_CompanyTypeExact ==
    Handled =>
        /\ (Validated \/ TheResponse.status = 200) =>
               /\ TheRequest.kind \in {"json", "form"}
               /\ TheRequest.fields.company_type \in {Some("corporation"), Some("LLC")}
        /\ (/\ TheRequest.kind \in {"json", "form"}
            /\ TheRequest.fields.company_type \notin {Some("corporation"), Some("LLC")}) =>
               /\ ~Validated
               /\ IsErrorResponse
               /\ RenderCalls = <<>>

C7_Witness ==
    /\ Handled
    /\ TheRequest.fields.company_type = Some("llc")
    /\ TheRequest.fields.company_name = Some(" Acme & Co. ")
    /\ TheRequest.fields.state_of_formation = Some("NY")
    /\ TheRequest.fields.incorporator_name = Some(" Jo Doe")
    /\ TheResponse.status = 400
    /\ Get(TheResponse.json).error = "unexpected value; permitted: 'corporation', 'LLC'"

\* C8: the document of every routine holds the company_name and the
\* incorporator_name exactly as the request supplied them.
C8_NamesVerbatim ==
    (Handled /\ IsPdfResponse) =>
        /\ DocContains(Get(TheRequest.fields.company_name))
        /\ DocContains(Get(TheRequest.fields.incorporator_name))

\* Each of the six routines has answered with the names as supplied.
C8_Witness ==
    /\ Handled /\ IsPdfResponse
    /\ RenderCalls = <<"generate_california_llc_certificate">>
    /\ TheRequest.fields.state_of_formation = Some("ca")
    /\ TheRequest.fields.company_name = Some(" Acme & Co. ")
    /\ TheRequest.fields.incorporator_name = Some(" Jo Doe")
    /\ \E i \in 1..Len(DocLines) : DocLines[i] = " Acme & Co. "
    /\ \E i \in 1..Len(DocLines) : DocLines[i] = " Jo Doe"

StartsWith(text, prefix) ==
    Len(prefix) <= Len(text) /\ SubSeq(text, 1, Len(prefix)) = prefix

EndsWith(text, suffix) ==
    Len(suffix) <= Len(text)
        /\ SubSeq(text, Len(text) - Len(suffix) + 1, Len(text)) = suffix

\* The line drawn k lines after the first line that is the label.
LineAfter(label, k) ==
    DocLines[(CHOOSE i \in 1..Len(DocLines) :
                 /\ DocLines[i] = label
                 /\ \A j \in 1..(i - 1) : DocLines[j] # label) + k]

\* The county clause of a New York document: the line that ends the THIRD
\* clause.
CountyLine == LineAfter("THIRD:", 2)

\* The shares clause of a New York corporation document: the line that ends
\* the FOURTH clause.
SharesClauseLine == LineAfter("FOURTH:", 2)

IsNewYorkPdf == Handled /\ IsPdfResponse /\ Validated /\ TheData.state_of_formation = "NY"

\* C9: a New York request that omits county gets NEW YORK COUNTY in the
\* county clause (corporation and LLC); a New York corporation request that
\* omits shares gets 200 common shares, and one that omits par_value gets
\* the wording "without par value".
C9_NewYorkDefaults ==
    IsNewYorkPdf =>
        /\ TheRequest.fields.county = None =>
               CountyLine = (IF TheData.company_type = "corporation"
                             THEN "is: NEW YORK COUNTY."
                             ELSE "to be located is: NEW YORK COUNTY.")
        /\ (TheData.company_type = "corporation" /\ TheRequest.fields.shares = None) =>
               StartsWith(SharesClauseLine, "200 common shares ")
        /\ (TheData.company_type = "corporation" /\ TheRequest.fields.par_value = None) =>
               /\ EndsWith(SharesClauseLine, " common shares without par value.")
               /\ ~Contains(SharesClauseLine, "$")

C9_Witness ==
    /\ IsNewYorkPdf
    /\ TheData.company_type = "corporation"
    /\ TheRequest.kind = "json"
    /\ TheRequest.fields.county = None
    /\ TheRequest.fields.shares = None
    /\ TheRequest.fields.par_value = None
    /\ TheRequest.fields.incorporator_address # None
    /\ CountyLine = "is: NEW YORK COUNTY."
    /\ SharesClauseLine = "200 common shares without par value."

\* C10: in the New York corporation document a par_value of 0 renders
\* "<shares> common shares without par value." and every nonzero par_value
\* renders "<shares> common shares with $X.XX par value per share.", X.XX
\* being the par value to two decimals; the line never holds both wordings.
C10_NonzeroParValueRendered ==
    (IsNewYorkPdf /\ TheData.company_type = "corporation" /\ TheData.par_value # None) =>
        LET par_value == Get(TheData.par_value)
            shares == IntStr(SharesOrDefault(TheData))
        IN  /\ par_value = 0 =>
                   SharesClauseLine = shares \o " common shares without par value."
            /\ par_value # 0 =>
                   SharesClauseLine = shares \o " common shares with $"
                                          \o Format2f(par_value) \o " par value per share."
            /\ ~(/\ Contains(SharesClauseLine, "without par value")
                 /\ Contains(SharesClauseLine, "par value per share"))

\* The prefix of the county line in the document of the company type.
CountyPrefix ==
    IF TheData.company_type = "corporation" THEN "is: " ELSE "to be located is: "

\* Some drawn line is exactly the text.
HasLine(text) == \E i \in 1..Len(DocLines) : DocLines[i] = text

\* C11 as stated: in both New York documents a non-empty county and a
\* non-empty incorporator_address of the validated request appear in the
\* rendered text exactly as supplied.
C11_CountyAndAddressVerbatim ==
    IsNewYorkPdf =>
        /\ TruthyStr(TheData.county) => DocContains(Get(TheData.county))
        /\ TruthyStr(TheData.incorporator_address) =>
               DocContains(Get(TheData.incorporator_address))

\* C11, amended: in both New York documents a non-empty county of the
\* validated request is drawn upper-cased in the county line, and a
\* non-empty incorporator_address is drawn exactly as supplied.
C11_CountyUpperAddressVerbatim ==
    IsNewYorkPdf =>
        /\ TruthyStr(TheData.county) =>
               CountyLine = CountyPrefix \o StrUpper(Get(TheData.county)) \o "."
        /\ TruthyStr(TheData.incorporator_address) =>
               HasLine(Get(TheData.incorporator_address))

C11_Witness ==
    /\ IsNewYorkPdf
    /\ TheData.company_type = "LLC"
    /\ TheData.county = Some("Kings")
    /\ TheData.incorporator_address = Some("1 Elm St")
    /\ CountyLine = "to be located is: KINGS."
    /\ ~DocContains("Kings")
    /\ HasLine("1 Elm St")

\* The JSON request that carries the same values as the request.
JsonTwin(req) == [req EXCEPT !.kind = "json"]

\* The days on which the clock may be read.
Days == 0..MaxClock

\* C12: a form-encoded request gets the outcome (status and document) that
\* the JSON request carrying the same eight values gets when it is handled
\* at the same readings of the clock.
C12_FormSameAsJson ==
    (Handled /\ TheRequest.kind = "form") =>
        \E d1 \in Days, d2 \in Days :
            TheResponse =
                form_company(JsonTwin(TheRequest), Date(d1), Date(d2), FALSE).response

\* The validated request without its optional fields.
StripOptional(company_data_) ==
    [company_data_ EXCEPT !.incorporator_address = None, !.county = None,
                          !.shares = None, !.par_value = None]

IsDelawareOrCaliforniaPdf ==
    /\ Handled /\ IsPdfResponse /\ Validated
    /\ TheData.state_of_formation \in {"DE", "CA"}

\* C13: the document of a validated DE or CA request is the document that
\* the request with the same company_name, state, company_type and
\* incorporator_name and no optional field gets at the same readings of
\* the clock (which the date lines of the document fix); the Delaware
\* corporation document always states 1,000 shares of Common Stock with
\* $0.01 par value.
C13_OptionalFieldsIgnored ==
    IsDelawareOrCaliforniaPdf =>
        /\ \E d1 \in Days, d2 \in Days :
               TheResponse.pdf = Dispatch(StripOptional(TheData), Date(d1), Date(d2)).pdf
        /\ (TheData.state_of_formation = "DE" /\ TheData.company_type = "corporation") =>
               HasLine("to issue is 1,000 shares of Common Stock with $0.01 par value per share.")

C13_Witness ==
    /\ IsDelawareOrCaliforniaPdf
    /\ TheData.state_of_formation = "DE"
    /\ TheData.company_type = "corporation"
    /\ TheData.shares = Some(-5)
    /\ TheData.par_value = Some(4)
    /\ TheData.county = Some("Kings")
    /\ TheData.incorporator_address = Some("1 Elm St")
    /\ HasLine("to issue is 1,000 shares of Common Stock with $0.01 par value per share.")
    /\ ~DocContains("KINGS")
    /\ ~DocContains("1 Elm St")

\* The response the request of thread t gets when it is handled alone, its
\* routine reading the clock on the days thread t's routine read it.
Alone(t) ==
    LET th == threads[t]
        d1 == IF th.nows = <<>> THEN 0 ELSE th.nows[1]
        d2 == IF th.nows = <<>> THEN 0 ELSE th.nows[2]
    IN  form_company(Get(th.request), Date(d1), Date(d2), FALSE).response

\* The texts a request carries in its string fields, and the upper-cased
\* county.
FieldTexts(req) ==
    LET f == req.fields
    IN  UNION {f.company_name, f.incorporator_name, f.incorporator_address, f.county}
            \cup {StrUpper(c) : c \in f.county}

ThreadDocContains(t, text) ==
    LET lines == Flatten(Get(threads[t].response).pdf)
    IN  \E i \in 1..Len(lines) : Contains(lines[i], text)

\* C14: under every interleaving of the threads, the response of each
\* request (status and document) is the response the request gets when
\* handled alone on the same days, and the document holds no field text of
\* a request another thread is handling, unless its own request carries the
\* text.
C14_ThreadsIsolated ==
    \A t \in Threads :
        threads[t].pc = "done" =>
            /\ threads[t].response = Some(Alone(t))
            /\ \A u \in Threads \ {t} :
                   threads[u].request # None =>
                       \A text \in FieldTexts(Get(threads[u].request))
                                      \ FieldTexts(Get(threads[t].request)) :
                           ~ThreadDocContains(t, text)

C14_Witness ==
    \E t \in Threads, u \in Threads :
        /\ t # u
        /\ threads[t].pc = "done" /\ threads[u].pc = "done"
        /\ Get(threads[t].request).fields.company_name = Some("Acme & Co.")
        /\ Get(threads[u].request).fields.company_name = Some("Bolt, Inc.")
        /\ Get(threads[t].response).status = 200
        /\ Get(threads[u].response).status = 200
        /\ ThreadDocContains(t, "KINGS") /\ ThreadDocContains(t, "Acme & Co.")
        /\ ThreadDocContains(u, "Bolt, Inc.") /\ ThreadDocContains(u, "Ann Lee")
        /\ threads[u].nows = <<0, 1>>

\* A client has the response to its GET /form-company-schema.
SchemaServed == request = Some(SchemaRequest) /\ response # None

\* The example payloads of the response.
Served == Get(TheResponse.json)

\* C15: the response to GET /form-company-schema has status 200 and a list
\* of examples that holds a NY corporation example with county, shares,
\* par_value and incorporator_address, and a NY LLC example with county and
\* incorporator_address.
C15_SchemaHasNewYorkExamples ==
    SchemaServed =>
        /\ TheResponse.status = 200
        /\ \E i \in 1..Len(Served) :
               /\ Served[i].state_of_formation = Some("NY")
               /\ Served[i].company_type = Some("corporation")
               /\ Served[i].county # None
               /\ Served[i].shares # None
               /\ Served[i].par_value # None
               /\ Served[i].incorporator_address # None
        /\ \E i \in 1..Len(Served) :
               /\ Served[i].state_of_formation = Some("NY")
               /\ Served[i].company_type = Some("LLC")
               /\ Served[i].county # None
               /\ Served[i].incorporator_address # None

C15_Witness ==
    /\ SchemaServed
    /\ TheResponse.status = 200
    /\ Len(Served) = 6
    /\ Served[5].company_name = Some("Empire State Corp.")
    /\ Served[5].county = Some("Albany County")
    /\ Served[6].company_name = Some("Big Apple Ventures, LLC")
    /\ Served[6].county = Some("New York County")

\* The clause labels.
Labels == {"FIRST:", "SECOND:", "THIRD:", "FOURTH:", "FIFTH:"}

\* The labels a New York document of the company type is to hold, in order.
LabelsOf(company_type) ==
    IF company_type = "corporation"
    THEN <<"FIRST:", "SECOND:", "THIRD:", "FOURTH:", "FIFTH:">>
    ELSE <<"FIRST:", "SECOND:", "THIRD:", "FOURTH:">>

\* The lines of the document that read as a clause label, in order.
LabelLines == SelectSeq(DocLines, LAMBDA line : line \in Labels)

\* The three lines that draw the address: in the mailing-address clause, in
\* the signer block and in the filer block.
AddressAt == {Len(DocLines) - 6, Len(DocLines) - 3, Len(DocLines)}

\* The lines other than the address lines that read as a clause label.
OwnLabelLines ==
    LET own == {i \in 1..Len(DocLines) : i \notin AddressAt /\ DocLines[i] \in Labels}
        RECURSIVE Up(_)
        Up(S) == IF S = {} THEN <<>>
                 ELSE LET i == CHOOSE x \in S : \A y \in S : x <= y
                      IN  <<DocLines[i]>> \o Up(S \ {i})
    IN  Up(own)

\* C16 as stated: in the New York corporation document the lines that read
\* FIRST:, SECOND:, THIRD:, FOURTH:, FIFTH: occur once each and in that
\* order; in the New York LLC document FIRST: to FOURTH: occur once each in
\* that order and no line reads FIFTH:.
C16_LabelsOnceInOrder ==
    IsNewYorkPdf => LabelLines = LabelsOf(TheData.company_type)

\* C16, amended: the same, of the lines other than the three that draw the
\* incorporator_address, which the routine draws as supplied.
C16_OwnLabelsOnceInOrder ==
    IsNewYorkPdf =>
        /\ OwnLabelLines = LabelsOf(TheData.company_type)
        /\ \A i \in AddressAt : DocLines[i] = AddressOrDefault(TheData)

C16_Witness ==
    /\ IsNewYorkPdf
    /\ TheData.company_type = "LLC"
    /\ TheData.incorporator_address = Some("FIFTH:")
    /\ OwnLabelLines = <<"FIRST:", "SECOND:", "THIRD:", "FOURTH:">>
    /\ LabelLines = <<"FIRST:", "SECOND:", "THIRD:", "FOURTH:", "FIFTH:", "FIFTH:", "FIFTH:">>

IsNewYorkLlcPdf == IsNewYorkPdf /\ TheData.company_type = "LLC"

\* The text holds the wording, in any letter case.
Worded(text, wording) == Contains(StrLower(text), wording)

\* The wording of the share clause of the corporation documents.
ShareWording == {"par value", "authority to issue"}

\* The texts of the validated request that the New York routines draw.
OwnTexts ==
    {TheData.company_name, TheData.incorporator_name,
     AddressOrDefault(TheData), CountyOrDefault(TheData)}

\* The validated request without shares and par_value.
StripShares(company_data_) == [company_data_ EXCEPT !.shares = None, !.par_value = None]

\* The document is the one rendered for the request without shares and
\* par_value.
SameWithoutShares == TheResponse.pdf = Dispatch(StripShares(TheData), Date(0), Date(0)).pdf

\* C17 as stated: the text of a New York LLC document holds no "par value"
\* and no "authority to issue" wording, and is the text rendered for the
\* same request without shares and par_value.
C17_LlcNoShareInformation ==
    IsNewYorkLlcPdf =>
        /\ \A w \in ShareWording : \A i \in 1..Len(DocLines) : ~Worded(DocLines[i], w)
        /\ SameWithoutShares

\* C17, amended: the text of a New York LLC document is the text rendered
\* for the same request without shares and par_value, and it holds "par
\* value" or "authority to issue" wording only if the request's own
\* company_name, incorporator_name, incorporator_address or county holds it.
C17_LlcNoShareInformationOfItsOwn ==
    IsNewYorkLlcPdf =>
        /\ \A w \in ShareWording :
               (\E i \in 1..Len(DocLines) : Worded(DocLines[i], w)) =>
                   \E text \in OwnTexts : Worded(text, w)
        /\ SameWithoutShares

C17_Witness ==
    /\ IsNewYorkLlcPdf
    /\ TheData.company_name = "Acme & Co."
    /\ TheData.shares = Some(1000)
    /\ TheData.par_value = Some(10)
    /\ \A i \in 1..Len(DocLines) : ~Worded(DocLines[i], "par value")
    /\ ~DocContains("1000")
    /\ ~DocContains("shares")

\* The index of the first line that reads as the label.
FirstIndex(label) ==
    CHOOSE i \in 1..Len(DocLines) :
        DocLines[i] = label /\ \A j \in 1..(i - 1) : DocLines[j] # label

\* The county as a New York document shows it: the county of the validated
\* request in upper case, or NEW YORK COUNTY.
CountyText ==
    IF TruthyStr(TheData.county) THEN StrUpper(Get(TheData.county)) ELSE "NEW YORK COUNTY"

\* C18: in both New York documents the county text is drawn after the
\* THIRD: label and before the FOURTH: label, and after the words "The
\* county, within this state" of the same clause.
C18_CountyInThirdClause ==
    IsNewYorkPdf =>
        LET third == FirstIndex("THIRD:")
            fourth == FirstIndex("FOURTH:")
        IN  \E h \in (third + 1)..(fourth - 1) :
                /\ StartsWith(DocLines[h], "The county, within this state")
                /\ \E j \in (h + 1)..(fourth - 1) :
                       EndsWith(DocLines[j], "is: " \o CountyText \o ".")

C18_Witness ==
    /\ IsNewYorkPdf
    /\ TheData.company_type = "corporation"
    /\ TheData.county = Some("Kings")
    /\ TheData.incorporator_address = Some("FIRST:")
    /\ DocLines[FirstIndex("THIRD:") + 2] = "is: KINGS."
    /\ FirstIndex("FOURTH:") = FirstIndex("THIRD:") + 3

\* The titles of the two New York documents.
NewYorkTitle ==
    IF TheData.company_type = "corporation"
    THEN "CERTIFICATE OF INCORPORATION"
    ELSE "ARTICLES OF ORGANIZATION"

\* C19: in both New York documents the company name is drawn in the title
\* block, after the title and the line OF, and again in the FIRST clause,
\* between the labels FIRST: and SECOND:.
C19_CompanyNameInTitleAndFirst ==
    IsNewYorkPdf =>
        /\ DocLines[1] = NewYorkTitle
        /\ DocLines[2] = "OF"
        /\ DocLines[3] = TheData.company_name
        /\ \E i \in (FirstIndex("FIRST:") + 1)..(FirstIndex("SECOND:") - 1) :
               DocLines[i] = TheData.company_name

C19_Witness ==
    /\ IsNewYorkPdf
    /\ TheData.company_type = "corporation"
    /\ TheData.company_name = "No par value"
    /\ DocLines[3] = "No par value"
    /\ LineAfter("FIRST:", 2) = "No par value"
    /\ Cardinality({i \in 1..Len(DocLines) : DocLines[i] = "No par value"}) = 2

\* The address a New York document is to show: the incorporator_address of
\* the validated request when it has a non-empty one, or the default.
AddressText ==
    IF TruthyStr(TheData.incorporator_address)
    THEN Get(TheData.incorporator_address)
    ELSE "123 Main Street, Albany, NY 12207"

\* C20: in both New York documents the same address ends the
\* mailing-address clause, the signer block (Incorporator: or Organizer:)
\* and the block "Filer's Name and Address:": the incorporator_address of
\* the request when it has a non-empty one, otherwise 123 Main Street,
\* Albany, NY 12207.
C20_OneAddressInThreePlaces ==
    IsNewYorkPdf =>
        LET n == Len(DocLines)
        IN  /\ EndsWith(DocLines[n - 7], "served upon the Secretary of State"
                   \o (IF TheData.company_type = "corporation"
                       THEN " by personal delivery is:" ELSE " is:"))
            /\ DocLines[n - 6] = AddressText
            /\ DocLines[n - 5] = (IF TheData.company_type = "corporation"
                                  THEN "Incorporator:" ELSE "Organizer:")
            /\ DocLines[n - 3] = AddressText
            /\ DocLines[n - 2] = "Filer's Name and Address:"
            /\ DocLines[n] = AddressText

C20_Witness ==
    /\ IsNewYorkPdf
    /\ TheData.company_type = "LLC"
    /\ TheData.incorporator_address = Some("1 Elm St")
    /\ LineAfter("Organizer:", 2) = "1 Elm St"
    /\ LineAfter("Filer's Name and Address:", 2) = "1 Elm St"
    /\ Cardinality({i \in 1..Len(DocLines) : DocLines[i] = "1 Elm St"}) = 3
    /\ ~DocContains("123 Main Street")

\* The label of the signer block of a New York document of the company type.
SignerLabel == IF TheData.company_type = "corporation" THEN "Incorporator:" ELSE "Organizer:"

\* C21: the signer block of a New York document is labelled Incorporator:
\* in the corporation document and Organizer: in the LLC document, where no
\* line the routine draws of its own reads Incorporator:; the signer is
\* "/s/ " followed by incorporator_name, and the block "Filer's Name and
\* Address:" with the same "/s/ " name follows the signer block.
C21_SignerAndFilerBlocks ==
    IsNewYorkPdf =>
        LET n == Len(DocLines)
            signer == "/s/ " \o TheData.incorporator_name
        IN  /\ DocLines[n - 5] = SignerLabel
            /\ DocLines[n - 4] = signer
            /\ DocLines[n - 2] = "Filer's Name and Address:"
            /\ DocLines[n - 1] = signer
            /\ TheData.company_type = "LLC" =>
                   \A i \in 1..n : i \notin AddressAt => DocLines[i] # "Incorporator:"

C21_Witness ==
    /\ IsNewYorkLlcPdf
    /\ TheData.incorporator_name = "Jo Doe"
    /\ LineAfter("Organizer:", 1) = "/s/ Jo Doe"
    /\ LineAfter("Filer's Name and Address:", 1) = "/s/ Jo Doe"
    /\ FirstIndex("Organizer:") < FirstIndex("Filer's Name and Address:")
    /\ ~DocContains("Incorporator:")

\* The index of the first line that begins with the prefix, 0 when there is
\* none.
FirstStart(prefix) ==
    IF \E i \in 1..Len(DocLines) : StartsWith(DocLines[i], prefix)
    THEN CHOOSE i \in 1..Len(DocLines) :
             /\ StartsWith(DocLines[i], prefix)
             /\ \A j \in 1..(i - 1) : ~StartsWith(DocLines[j], prefix)
    ELSE 0

\* The clause labels of the documents of a state, in order.
ClausesOf(state) ==
    IF state = "DE"
    THEN <<"FIRST:", "SECOND:", "THIRD:", "FOURTH:">>
    ELSE <<"ARTICLE I:", "ARTICLE II:", "ARTICLE III:">>

\* C22: every Delaware document holds clauses that begin FIRST:, SECOND:,
\* THIRD:, FOURTH: in that order and every California document clauses
\* that begin ARTICLE I:, ARTICLE II:, ARTICLE III: in that order; the
\* company name is the line after the first clause line; the IN WITNESS
\* WHEREOF line follows the last clause, and the document ends with the
\* signer label, Incorporator: for corporations and Authorized Person: for
\* LLCs, and incorporator_name.
C22_DelawareCaliforniaClauseSequence ==
    IsDelawareOrCaliforniaPdf =>
        LET clauses == ClausesOf(TheData.state_of_formation)
            at == [k \in 1..Len(clauses) |-> FirstStart(clauses[k])]
            witness == FirstStart("IN WITNESS WHEREOF")
            n == Len(DocLines)
        IN  /\ at[1] > 0
            /\ \A k \in 1..(Len(clauses) - 1) : at[k] < at[k + 1]
            /\ DocLines[at[1] + 1] = TheData.company_name
            /\ at[Len(clauses)] < witness
            /\ witness < n - 1
            /\ DocLines[n - 1] = (IF TheData.company_type = "corporation"
                                  THEN "Incorporator:" ELSE "Authorized Person:")
            /\ DocLines[n] = TheData.incorporator_name

C22_Witness ==
    /\ IsDelawareOrCaliforniaPdf
    /\ TheData.state_of_formation = "CA"
    /\ TheData.company_type = "LLC"
    /\ TheRequest.fields.state_of_formation = Some("ca")
    /\ FirstStart("ARTICLE I:") = 2
    /\ DocLines[3] = " Acme & Co. "
    /\ FirstStart("ARTICLE III:") < FirstStart("IN WITNESS WHEREOF")
    /\ DocLines[Len(DocLines) - 1] = "Authorized Person:"
    /\ DocLines[Len(DocLines)] = " Jo Doe"

\* The optional fields of a request.
OptionalFields == {"incorporator_address", "county", "shares", "par_value"}

\* The dict the handler passed to CompanyFormation.
TheInput == Get(ReadBody(TheRequest).value)

\* C23: every optional field of a validated request holds what the dict
\* given to CompanyFormation held for it: None when the dict omitted it,
\* the supplied value otherwise; a New York document shows the defaults
\* although the validated request holds None.
C23_ValidationFillsNoDefaults ==
    (Handled /\ Validated) =>
        /\ \A f \in OptionalFields : TheData[f] = TheInput[f]
        /\ (IsNewYorkPdf /\ TheData.county = None) => EndsWith(CountyLine, "NEW YORK COUNTY.")
        /\ (IsNewYorkPdf /\ TheData.incorporator_address = None) =>
               HasLine("123 Main Street, Albany, NY 12207")

C23_Witness ==
    /\ IsNewYorkPdf
    /\ TheRequest.kind = "json"
    /\ TheData.company_type = "corporation"
    /\ TheRequest.fields.county = None /\ TheData.county = None
    /\ TheRequest.fields.incorporator_address = None /\ TheData.incorporator_address = None
    /\ TheRequest.fields.shares = Some(1000) /\ TheData.shares = Some(1000)
    /\ TheRequest.fields.par_value = Some(10) /\ TheData.par_value = Some(10)
    /\ CountyLine = "is: NEW YORK COUNTY."
    /\ SharesClauseLine = "1000 common shares with $0.01 par value per share."

\* The required fields of a request.
RequiredFields ==
    {"company_name", "state_of_formation", "company_type", "incorporator_name"}

\* The request lacks a required field or holds an invalid one.
InvalidRequest ==
    LET f == TheRequest.fields
    IN  \/ \E name \in RequiredFields : f[name] = None
        \/ ~CompanyNameMatch(Get(f.company_name))
        \/ StrUpper(Get(f.state_of_formation)) \notin states
        \/ Get(f.company_type) \notin {"corporation", "LLC"}

\* C24: a rendering routine is called only after CompanyFormation has been
\* called and has validated the request; a request that lacks a required
\* field or holds an invalid one is not validated, no routine is called for
\* it and its response holds no document.
C24_ValidationPrecedesRendering ==
    Handled =>
        /\ \A i \in 1..Len(calls) :
               calls[i] \in Routines =>
                   Validated /\ \E j \in 1..(i - 1) : calls[j] = "CompanyFormation"
        /\ InvalidRequest =>
               ~Validated /\ RenderCalls = <<>> /\ TheResponse.pdf = <<>>

C24_Witness ==
    /\ Handled
    /\ TheRequest.kind = "json"
    /\ TheRequest.fields.company_name = Some(" Acme & Co. ")
    /\ TheRequest.fields.state_of_formation = Some("NY")
    /\ TheRequest.fields.company_type = Some("corporation")
    /\ TheRequest.fields.incorporator_name = None
    /\ calls = <<"get_json", "CompanyFormation", "jsonify">>
    /\ TheResponse.pdf = <<>>
    /\ TheResponse.status = 400

IsNewYorkCorporationPdf == IsNewYorkPdf /\ TheData.company_type = "corporation"

\* C25: in the New York corporation document shares of 0 render as omitted
\* shares do, "200 common shares ..."; every nonzero shares value, negative
\* ones included, renders as given; the share count drawn is never 0.
C25_ZeroSharesRenderDefault ==
    IsNewYorkCorporationPdf =>
        /\ TheData.shares \in {None, Some(0)} =>
               StartsWith(SharesClauseLine, "200 common shares ")
        /\ TheData.shares \notin {None, Some(0)} =>
               StartsWith(SharesClauseLine, IntStr(Get(TheData.shares)) \o " common shares ")
        /\ ~StartsWith(SharesClauseLine, "0 ")

C25_Witness ==
    /\ IsNewYorkCorporationPdf
    /\ TheData.shares = Some(0)
    /\ TheData.par_value = Some(10)
    /\ SharesClauseLine = "200 common shares with $0.01 par value per share."

\* A New York corporation document that draws a negative share count.
C25_NegativeWitness ==
    /\ IsNewYorkCorporationPdf
    /\ TheData.shares = Some(-5)
    /\ SharesClauseLine = "-5 common shares without par value."

\* C26: in both New York documents an empty-string county renders NEW YORK
\* COUNTY and an empty-string incorporator_address renders 123 Main Street,
\* Albany, NY 12207 in all three address positions, as omitted ones do; the
\* county clause never ends "is: ." and no address line is empty.
C26_EmptyStringsGetDefaults ==
    IsNewYorkPdf =>
        /\ TheData.county = Some("") => CountyLine = CountyPrefix \o "NEW YORK COUNTY."
        /\ TheData.incorporator_address = Some("") =>
               \A i \in AddressAt : DocLines[i] = "123 Main Street, Albany, NY 12207"
        /\ CountyLine # CountyPrefix \o "."
        /\ \A i \in AddressAt : DocLines[i] # ""

C26_Witness ==
    /\ IsNewYorkLlcPdf
    /\ TheData.county = Some("")
    /\ TheData.incorporator_address = Some("")
    /\ CountyLine = "to be located is: NEW YORK COUNTY."
    /\ Cardinality({i \in 1..Len(DocLines) :
                        DocLines[i] = "123 Main Street, Albany, NY 12207"}) = 3

\* The request with its state code in upper case.
UpperTwin(req) ==
    [req EXCEPT !.fields.state_of_formation = {StrUpper(s) : s \in @}]

\* C27: a request gets the routine calls and the response that the request
\* with the same fields and the state code in upper case gets at the same
\* readings of the clock; a code of a supported state in any letter case
\* gets the document of the state.
C27_StateCaseInsensitive ==
    (Handled /\ TheRequest.fields.state_of_formation # None) =>
        /\ \E d1 \in Days, d2 \in Days :
               LET upper == form_company(UpperTwin(TheRequest), Date(d1), Date(d2), FALSE)
               IN  TheResponse = upper.response /\ calls = upper.calls
        /\ (StrUpper(Get(TheRequest.fields.state_of_formation)) \in {"DE", "CA", "NY"}
                /\ Validated) =>
               IsPdfResponse

C27_Witness ==
    /\ Handled
    /\ TheRequest.fields.state_of_formation = Some("Ny")
    /\ TheRequest.fields.company_type = Some("LLC")
    /\ TheData.state_of_formation = "NY"
    /\ RenderCalls = <<"generate_new_york_llc_certificate">>
    /\ IsPdfResponse
    /\ DocLines[1] = "ARTICLES OF ORGANIZATION"

\* A client has the response to an example it posted unchanged as JSON.
ExamplePosted ==
    /\ Handled
    /\ TheRequest.kind = "json"
    /\ \E i \in 1..Len(examples) : TheRequest.fields = examples[i]

\* The supported pairs of state and company type.
SupportedPairs == {"DE", "CA", "NY"} \X {"corporation", "LLC"}

\* C28: an example of GET /form-company-schema posted unchanged as JSON is
\* validated and gets a 200 PDF response; the examples served are six, and
\* each supported pair of state and company type is the pair of exactly
\* one of them.
C28_ExamplesAreSupportedRequests ==
    /\ ExamplePosted => (Validated /\ IsPdfResponse /\ TheResponse.status = 200)
    /\ SchemaServed =>
           /\ Len(Served) = 6
           /\ \A pair \in SupportedPairs :
                  Cardinality({i \in 1..Len(Served) :
                                  /\ Served[i].state_of_formation = Some(pair[1])
                                  /\ Served[i].company_type = Some(pair[2])}) = 1

C28_Witness ==
    /\ ExamplePosted
    /\ TheRequest.fields.company_name = Some("Empire State Corp.")
    /\ IsPdfResponse
    /\ CountyLine = "is: ALBANY COUNTY."
    /\ SharesClauseLine = "1000 common shares with $0.01 par value per share."
    /\ HasLine("418 Broadway Ste Y, Albany, Albany County, NY 12207")

\* The document the routine of the validated request draws when both its
\* readings of the clock fall on day d.
DocumentOn(d) == Dispatch(TheData, Date(d), Date(d)).pdf

\* The New York half of C29: the document of a validated New York request
\* is the same at every pair of readings of the clock.
NewYorkIgnoresClock ==
    IsNewYorkPdf =>
        \A d1 \in Days, d2 \in Days :
            TheResponse.pdf = Dispatch(TheData, Date(d1), Date(d2)).pdf

\* C29: a New York document is the same whenever the request is handled; a
\* Delaware or California document embeds the day, month and year of a day
\* on which the request was handled, and the documents of equal requests
\* handled on different days differ.
C29_DocumentFixedByFieldsAndDate ==
    /\ NewYorkIgnoresClock
    /\ IsDelawareOrCaliforniaPdf =>
           /\ \E d \in 0..clock : TheResponse.pdf = DocumentOn(d)
           /\ \A d \in Days, e \in Days : DocumentOn(d) = DocumentOn(e) => d = e

\* A Delaware document dated with the day of one date and the month and
\* year of the next.
C29_MidnightWitness ==
    /\ IsDelawareOrCaliforniaPdf
    /\ TheData.state_of_formation = "DE"
    /\ TheData.company_type = "LLC"
    /\ DocContains(" this 31 day of")
    /\ HasLine("January, 2025.")

\* The request lacks a required field, has an empty company_name, or its
\* JSON body is no object.
Incomplete ==
    \/ TheRequest.kind \notin {"json", "form"}
    \/ \E name \in RequiredFields : TheRequest.fields[name] = None
    \/ TheRequest.fields.company_name = Some("")

\* C30: a request that lacks one of the four required fields (in a JSON or
\* a form-encoded body), has an empty company_name, or has a JSON body that
\* is no object gets the 400 JSON error response and no PDF.
C30_IncompleteRequestIsError ==
    (Handled /\ Incomplete) =>
        /\ IsErrorResponse
        /\ ~IsPdfResponse
        /\ RenderCalls = <<>>

C30_Witness ==
    /\ Handled
    /\ TheRequest.kind = "form"
    /\ TheRequest.fields.company_name = Some("")
    /\ TheRequest.fields.state_of_formation = Some("NY")
    /\ TheRequest.fields.company_type = Some("LLC")
    /\ TheRequest.fields.incorporator_name = Some(" Jo Doe")
    /\ IsErrorResponse
    /\ calls = <<"form.get", "CompanyFormation", "jsonify">>

\* A JSON body that is no object gets the error response.
C30_ArrayWitness ==
    /\ Handled
    /\ TheRequest.kind = "json_array"
    /\ IsErrorResponse

====
